---- MODULE Spec2Model ----
(***************************************************************************)
(* The game loop of src/main.py (a pygame shooter): the sprite groups, the *)
(* per-sprite update methods, Player.move, the firing and spawning steps,  *)
(* the three collision checks and the exit paths of main().                *)
(*                                                                         *)
(* One loop iteration (main.py 324-404) is the action Tick.  It is the     *)
(* composition, in source order, of the step operators below; each step    *)
(* maps a game record g to the game record after the step.                 *)
(***************************************************************************)
EXTENDS Integers, Sequences, FiniteSets

(***************************************************************************)
(* Program constants (main.py 39-43 and the class attributes).             *)
(***************************************************************************)
MAX_SHOTS == 2
ENEMY_ODDS == 22
BULLET_ODDS == 60
ENEMY_RELOAD == 12
SCREEN_W == 640
SCREEN_H == 480
PlayerSpeed == 10
PlayerBounce == 24
PlayerGunOffset == -11
EnemySpeed == 5
ShotSpeed == -11
BulletSpeed == 9
BulletDrop == 5
ExplosionLife == 12
PlayerAnimCycle == 12
PlayerImages == 3
ExplosionAnimCycle == 3
ExplosionImages == 2
ScoreLeft == 10
ScoreTop == 450

(***************************************************************************)
(* Sizes of the images handed over by the asset provider (load_images).    *)
(* The image files are not part of the source; the model fixes one size    *)
(* per kind.  The player's image is taken large, so that enemies, shots    *)
(* and bullets meet it within the iterations explored; speeds, play-field  *)
(* and countdowns are the program's.  A second set of images, TallImages,  *)
(* has a lower player and a shot taller than the distance between two      *)
(* enemies of one column.                                                  *)
(***************************************************************************)
PlayerW == 600
PlayerH == 430
EnemyW == 40
EnemyH == 30
ShotW == 8
ShotH == 10
BulletW == 8
BulletH == 10
ExplosionW == 30
ExplosionH == 30
ScoreW == 60
ScoreH == 14
LowPlayerH == 410
TallShotH == 80

Images == [playerH |-> PlayerH, shotH |-> ShotH]
TallImages == [playerH |-> LowPlayerH, shotH |-> TallShotH]

(***************************************************************************)
(* Bounds of the model.  A run is explored under one of the input budgets  *)
(* of Budgets: how many iterations it lasts, whether the arrow keys are    *)
(* ever pressed, in how many iterations the space bar is held, how many    *)
(* spawn samples and how many bullet samples come out as a hit, and which  *)
(* set of images is loaded.                                                *)
(***************************************************************************)
IdStride == 16
AimTicks == 12
FireTicks == 12
FireCount == 3
SpawnTicks == 27
SpawnCount == 2
SteerTicks == 25
ShootTicks == 19
IdleTicks == 112
PierceTicks == 14
PierceCount == 2
CrossTicks == 8
MeleeTicks == 15

Budgets ==
    { [ticks |-> AimTicks, moves |-> TRUE, fire |-> 1, spawn |-> 0, bullet |-> 0, tall |-> FALSE],
      [ticks |-> FireTicks, moves |-> FALSE, fire |-> FireCount, spawn |-> 0, bullet |-> 0, tall |-> FALSE],
      [ticks |-> SpawnTicks, moves |-> FALSE, fire |-> 0, spawn |-> SpawnCount, bullet |-> 0, tall |-> FALSE],
      [ticks |-> SteerTicks, moves |-> TRUE, fire |-> 0, spawn |-> 1, bullet |-> 0, tall |-> FALSE],
      [ticks |-> ShootTicks, moves |-> FALSE, fire |-> 1, spawn |-> 1, bullet |-> 0, tall |-> FALSE],
      [ticks |-> IdleTicks, moves |-> FALSE, fire |-> 0, spawn |-> 0, bullet |-> 1, tall |-> FALSE],
      [ticks |-> CrossTicks, moves |-> FALSE, fire |-> 1, spawn |-> 0, bullet |-> 1, tall |-> FALSE],
      [ticks |-> MeleeTicks, moves |-> TRUE, fire |-> 1, spawn |-> 1, bullet |-> 0, tall |-> FALSE],
      [ticks |-> PierceTicks, moves |-> FALSE, fire |-> PierceCount, spawn |-> 1, bullet |-> 0, tall |-> TRUE] }

(* random.random() in thousandths: the sample m stands for m/1000 *)
SampleUnit == 1000
EnemySamples == {45, 46}
BulletSamples == {16, 17}
StartSamples == {500, 985}
SpawnSamples == {500, 985}

VARIABLES phase, tick, game, budget

vars == <<phase, tick, game, budget>>

PlayerId == 0
ScoreId == 2

(***************************************************************************)
(* pygame.Rect                                                             *)
(***************************************************************************)
Right(r) == r.left + r.w
Bottom(r) == r.top + r.h
CenterX(r) == r.left + (r.w \div 2)
CenterY(r) == r.top + (r.h \div 2)

colliderect(a, b) ==
    /\ a.left < Right(b)
    /\ Right(a) > b.left
    /\ a.top < Bottom(b)
    /\ Bottom(a) > b.top

(* Rect.clamp(SCREENRECT): a rect larger than the screen is centred *)
ClampAxis(pos, size, limit) ==
    IF size >= limit THEN (limit \div 2) - (size \div 2)
    ELSE IF pos < 0 THEN 0
    ELSE IF pos + size > limit THEN limit - size
    ELSE pos

clamp(r) ==
    [r EXCEPT !.left = ClampAxis(r.left, r.w, SCREEN_W),
              !.top = ClampAxis(r.top, r.h, SCREEN_H)]

(* image.get_rect(midbottom = (x, y)) *)
RectMidBottom(kind, w, h, x, y) ==
    [kind |-> kind, left |-> x - (w \div 2), top |-> y - h, w |-> w, h |-> h,
     life |-> 0, image |-> 0]

(* image.get_rect(center = (x, y)) *)
RectCenter(kind, w, h, x, y) ==
    [kind |-> kind, left |-> x - (w \div 2), top |-> y - (h \div 2), w |-> w,
     h |-> h, life |-> 0, image |-> 0]

(* int(random.random() * n) *)
Scaled(sample, n) == (sample * n) \div SampleUnit

(* a Rect is truthy when its width and height are not 0 *)
Truthy(r) == r.w # 0 /\ r.h # 0

(* the rectangle a RenderUpdates group holds for a sprite it has not drawn *)
InitRect == [left |-> 0, top |-> 0, w |-> 0, h |-> 0]

Max(a, b) == IF a >= b THEN a ELSE b
Min(a, b) == IF a <= b THEN a ELSE b

(* Surface.blit(image, rect) on the screen: the area painted, which is the *)
(* rectangle clipped to the screen and empty when nothing of it is inside  *)
Blit(r) ==
    LET l == Max(r.left, 0)
        t == Max(r.top, 0)
        rt == Min(Right(r), SCREEN_W)
        b == Min(Bottom(r), SCREEN_H)
    IN IF rt > l /\ b > t
       THEN [left |-> l, top |-> t, w |-> rt - l, h |-> b - t]
       ELSE [left |-> r.left, top |-> r.top, w |-> 0, h |-> 0]

(* Rect.union *)
RectUnion(a, b) ==
    LET l == Min(a.left, b.left)
        t == Min(a.top, b.top)
    IN [left |-> l, top |-> t, w |-> Max(Right(a), Right(b)) - l,
        h |-> Max(Bottom(a), Bottom(b)) - t]

(***************************************************************************)
(* Sprite and Group: Sprite.__init__(containers), Sprite.kill()            *)
(***************************************************************************)
RECURSIVE SortedIds(_)
SortedIds(S) ==
    IF S = {} THEN <<>>
    ELSE LET m == CHOOSE x \in S : \A y \in S : x <= y
         IN <<m>> \o SortedIds(S \ {m})

Put(f, k, v) == [x \in (DOMAIN f) \cup {k} |-> IF x = k THEN v ELSE f[x]]

(* RenderUpdates.remove_internal: the group all forgets the sprite; the *)
(* rectangle it last drew, when it is not empty, goes to lostsprites     *)
RemoveFromAll(g, id) ==
    IF id \notin g.all THEN g
    ELSE [g EXCEPT !.all = @ \ {id},
                   !.drawn = [x \in (DOMAIN @) \ {id} |-> @[x]],
                   !.lost = IF Truthy(g.drawn[id]) THEN @ \cup {g.drawn[id]} ELSE @]

(* a kill that forgets the GroupSingle *)
killKeepsLast(g, id) ==
    [RemoveFromAll(g, id) EXCEPT !.enemies = @ \ {id},
                                 !.shots = @ \ {id},
                                 !.enemy_bullets = @ \ {id}]

(* remove the sprite from every group that holds it *)
kill(g, id) ==
    [RemoveFromAll(g, id) EXCEPT !.enemies = @ \ {id},
                                 !.shots = @ \ {id},
                                 !.enemy_bullets = @ \ {id},
                                 !.lastenemy = @ \ {id}]

(* a new sprite object with the next identity, not yet in any group.  An *)
(* identity is the iteration the object is created in and its rank among *)
(* the objects created in that iteration                                 *)
NewSprite(g, r) ==
    [g EXCEPT !.spr = Put(@, g.nid, r), !.nid = @ + 1]

(* RenderUpdates.add_internal: the sprite joins all with nothing drawn yet *)
AddToAll(g, id) ==
    [g EXCEPT !.all = @ \cup {id}, !.drawn = Put(@, id, InitRect)]

(* an Enemy whose constructor adds it to lastenemy only when that is empty *)
AddEnemyKeepLast(g, r) ==
    [AddToAll(NewSprite(g, r), g.nid)
        EXCEPT !.enemies = @ \cup {g.nid},
               !.lastenemy = IF @ = {} THEN {g.nid} ELSE @,
               !.newest = g.nid]

(* Enemy.containers = enemies, all, lastenemy; GroupSingle keeps one sprite. *)
(* The field newest is a record of the last Enemy made; the program does    *)
(* not read it                                                              *)
AddEnemy(g, r) ==
    [AddToAll(NewSprite(g, r), g.nid)
        EXCEPT !.enemies = @ \cup {g.nid},
               !.lastenemy = {g.nid},
               !.newest = g.nid]

(* Shot.containers = shots, all *)
AddShot(g, r) ==
    [AddToAll(NewSprite(g, r), g.nid) EXCEPT !.shots = @ \cup {g.nid}]

(* EnemyBullet.containers = enemy_bullets, all *)
AddEnemyBullet(g, r) ==
    [AddToAll(NewSprite(g, r), g.nid) EXCEPT !.enemy_bullets = @ \cup {g.nid}]

(* Explosion.containers = all *)
AddExplosion(g, r) ==
    AddToAll(NewSprite(g, r), g.nid)

(* all.add(Score()) *)
AddScore(g, r) ==
    AddToAll(NewSprite(g, r), g.nid)

(***************************************************************************)
(* Constructors                                                            *)
(***************************************************************************)
PlayerRect(images) ==
    RectMidBottom("Player", PlayerW, images.playerH, SCREEN_W \div 2, SCREEN_H)

EnemyRect(sample) ==
    [kind |-> "Enemy", left |-> Scaled(sample, SCREEN_W), top |-> -EnemyH,
     w |-> EnemyW, h |-> EnemyH, life |-> 0, image |-> 0]

ExplosionRect(actor) ==
    [RectCenter("Explosion", ExplosionW, ExplosionH, CenterX(actor), CenterY(actor))
        EXCEPT !.life = ExplosionLife]

ShotRect(images, pos) == RectMidBottom("Shot", ShotW, images.shotH, pos[1], pos[2])

EnemyBulletRect(enemy) ==
    RectMidBottom("EnemyBullet", BulletW, BulletH, CenterX(enemy),
                  Bottom(enemy) + BulletDrop)

(***************************************************************************)
(* The update methods, called by all.update()                              *)
(***************************************************************************)
EnemyUpdate(g, id) ==
    LET top == g.spr[id].top + EnemySpeed
        g1 == [g EXCEPT !.spr[id].top = top]
    IN IF top >= SCREEN_H THEN kill([g1 EXCEPT !.ev.left = @ \cup {id}], id) ELSE g1

(* Explosion.update with the test life < 0 *)
ExplosionUpdateLate(g, id) ==
    LET life == g.spr[id].life - 1
        g1 == [g EXCEPT !.spr[id].life = life,
                        !.spr[id].image = (life \div ExplosionAnimCycle) % ExplosionImages]
    IN IF life < 0 THEN kill([g1 EXCEPT !.ev.faded = @ \cup {id}], id) ELSE g1

ExplosionUpdate(g, id) ==
    LET life == g.spr[id].life - 1
        g1 == [g EXCEPT !.spr[id].life = life,
                        !.spr[id].image = (life \div ExplosionAnimCycle) % ExplosionImages]
    IN IF life <= 0 THEN kill([g1 EXCEPT !.ev.faded = @ \cup {id}], id) ELSE g1

(* Player.update: the frame counter and the image it selects *)
PlayerUpdate(g, id) ==
    LET frame == g.player.frame + 1
    IN [g EXCEPT !.player.frame = frame,
                 !.spr[id].image = (frame \div PlayerAnimCycle) % PlayerImages]

(* Score.update: the text is rendered again only when SCORE has changed; *)
(* the image stands for the text shown                                   *)
ScoreUpdate(g, id) ==
    IF g.SCORE # g.lastscore
    THEN [g EXCEPT !.lastscore = g.SCORE, !.spr[id].image = g.SCORE]
    ELSE g

ShotUpdate(g, id) ==
    LET top == g.spr[id].top + ShotSpeed
        g1 == [g EXCEPT !.spr[id].top = top]
    IN IF top <= -g.spr[id].h THEN kill(g1, id) ELSE g1

(* EnemyBullet.update with the test Enemy.update makes, on the top edge *)
EnemyBulletUpdateTopTest(g, id) ==
    LET top == g.spr[id].top + BulletSpeed
        g1 == [g EXCEPT !.spr[id].top = top]
    IN IF top >= SCREEN_H THEN kill([g1 EXCEPT !.ev.gone = @ \cup {id}], id) ELSE g1

EnemyBulletUpdate(g, id) ==
    LET top == g.spr[id].top + BulletSpeed
        g1 == [g EXCEPT !.spr[id].top = top]
    IN IF top + g.spr[id].h >= SCREEN_H
       THEN kill([g1 EXCEPT !.ev.gone = @ \cup {id}], id)
       ELSE g1

(* Enemy.update also counts frames, but Enemy.images holds one image *)
SpriteUpdate(g, id) ==
    CASE g.spr[id].kind = "Enemy" -> EnemyUpdate(g, id)
      [] g.spr[id].kind = "Explosion" -> ExplosionUpdate(g, id)
      [] g.spr[id].kind = "Shot" -> ShotUpdate(g, id)
      [] g.spr[id].kind = "EnemyBullet" -> EnemyBulletUpdate(g, id)
      [] g.spr[id].kind = "Player" -> PlayerUpdate(g, id)
      [] g.spr[id].kind = "Score" -> ScoreUpdate(g, id)

RECURSIVE UpdateEach(_, _)
UpdateEach(g, ids) ==
    IF ids = <<>> THEN g
    ELSE UpdateEach(SpriteUpdate(g, Head(ids)), Tail(ids))

(* objects nothing refers to any more are dropped from the heap: a sprite *)
(* stays while a group holds it, the player while main() runs, and what   *)
(* this iteration's log names until the next iteration                    *)
Collect(g) ==
    [g EXCEPT !.spr = [id \in (g.all \cup {PlayerId} \cup g.ev.hit1
                               \cup g.ev.hit2 \cup g.ev.shotsHit \cup g.ev.hit3
                               \cup g.ev.bulletFrom \cup g.ev.gone
                               \cup g.ev.faded) \cap DOMAIN g.spr
                       |-> g.spr[id]]]

(* all.update(): every sprite that is in the group all when the call starts *)
UpdateAll(g) == UpdateEach(g, SortedIds(g.all))

(* main.py 103-106: the image Player.move selects *)
MoveImage(image, direction) ==
    IF direction < 0 THEN 0 ELSE IF direction > 0 THEN 1 ELSE image

(* Player.move with the clamp left out *)
PlayerMoveNoClamp(g, direction) ==
    LET r == g.spr[PlayerId]
        moved == [r EXCEPT !.left = @ + direction * PlayerSpeed]
        top == g.player.origtop - ((moved.left \div PlayerBounce) % 2)
    IN [g EXCEPT !.player.facing = IF direction # 0 THEN direction ELSE @,
                 !.ev.moved = r.left + direction * PlayerSpeed,
                 !.spr[PlayerId] = [moved EXCEPT !.top = top,
                                                 !.image = MoveImage(@, direction)]]

(* Player.move with the bounce taken from the position before the clamp *)
PlayerMoveBounceFirst(g, direction) ==
    LET r == g.spr[PlayerId]
        to == r.left + direction * PlayerSpeed
        moved == clamp([r EXCEPT !.left = to])
        top == g.player.origtop - ((to \div PlayerBounce) % 2)
    IN [g EXCEPT !.player.facing = IF direction # 0 THEN direction ELSE @,
                 !.ev.moved = to,
                 !.spr[PlayerId] = [moved EXCEPT !.top = top,
                                                 !.image = MoveImage(@, direction)]]

(***************************************************************************)
(* Player.move and Player.gunpos; ev.moved is the left edge before the     *)
(* clamp                                                                   *)
(***************************************************************************)
PlayerMove(g, direction) ==
    LET r == g.spr[PlayerId]
        moved == clamp([r EXCEPT !.left = @ + direction * PlayerSpeed])
        top == g.player.origtop - ((moved.left \div PlayerBounce) % 2)
    IN [g EXCEPT !.player.facing = IF direction # 0 THEN direction ELSE @,
                 !.ev.moved = r.left + direction * PlayerSpeed,
                 !.spr[PlayerId] = [moved EXCEPT !.top = top,
                                                 !.image = MoveImage(@, direction)]]

gunpos(g) ==
    <<g.player.facing * PlayerGunOffset + CenterX(g.spr[PlayerId]),
      g.spr[PlayerId].top>>

(***************************************************************************)
(* main(): the steps of one loop iteration.  The field ev of the game      *)
(* record is a log of what the iteration did; the program does not read it.*)
(***************************************************************************)
NoEvents ==
    [score0 |-> 0, nid0 |-> 0, still |-> FALSE, reloading0 |-> 0, shots0 |-> 0, firing |-> 0, fired |-> {},
     reload0 |-> 0, esample |-> -1, spawned |-> {},
     foes0 |-> {}, last0 |-> {}, bsample |-> -1, bullets |-> {},
     bulletFrom |-> {}, left |-> {}, gone |-> {}, foes2 |-> {}, shots2 |-> {},
     bullets3 |-> {}, faded |-> {}, moved |-> 0,
     hit1 |-> {}, hit2 |-> {}, shotsHit |-> {},
     hit3 |-> {}, made1 |-> {}, made2 |-> {}, made3 |-> {}]

(* the firing step without the test of len(shots) *)
PlayerInputNoCap(g, direction, firing) ==
    LET g1 == PlayerMove(g, direction)
        shoot == g1.player.reloading = 0 /\ firing # 0
        g2 == IF shoot
              THEN [AddShot(g1, ShotRect(g1.images, gunpos(g1))) EXCEPT !.ev.fired = {g1.nid}]
              ELSE g1
    IN [g2 EXCEPT !.player.reloading = firing,
                  !.ev.reloading0 = g.player.reloading,
                  !.ev.shots0 = Cardinality(g.shots),
                  !.ev.firing = firing]

(* the firing step with the reload lock set only when a shot is made *)
PlayerInputLockOnShot(g, direction, firing) ==
    LET g1 == PlayerMove(g, direction)
        shoot == g1.player.reloading = 0 /\ firing # 0
                 /\ Cardinality(g1.shots) < MAX_SHOTS
        g2 == IF shoot
              THEN [AddShot(g1, ShotRect(g1.images, gunpos(g1))) EXCEPT !.ev.fired = {g1.nid}]
              ELSE g1
    IN [g2 EXCEPT !.player.reloading = IF shoot THEN 1 ELSE 0,
                  !.ev.reloading0 = g.player.reloading,
                  !.ev.shots0 = Cardinality(g.shots),
                  !.ev.firing = firing]

(* main.py 355-363: handle player input *)
PlayerInput(g, direction, firing) ==
    LET g1 == PlayerMove(g, direction)
        shoot == g1.player.reloading = 0 /\ firing # 0
                 /\ Cardinality(g1.shots) < MAX_SHOTS
        g2 == IF shoot
              THEN [AddShot(g1, ShotRect(g1.images, gunpos(g1))) EXCEPT !.ev.fired = {g1.nid}]
              ELSE g1
    IN [g2 EXCEPT !.player.reloading = firing,
                  !.ev.reloading0 = g.player.reloading,
                  !.ev.shots0 = Cardinality(g.shots),
                  !.ev.firing = firing]

(* the spawn step without the reset of the countdown *)
EnemySpawnNoReset(g, sample, xsample) ==
    LET g0 == [g EXCEPT !.ev.reload0 = g.enemyreload]
    IN IF g.enemyreload # 0
       THEN [g0 EXCEPT !.enemyreload = @ - 1]
       ELSE IF Scaled(sample, ENEMY_ODDS) = 0
            THEN [AddEnemy(g0, EnemyRect(xsample))
                     EXCEPT !.ev.esample = sample,
                            !.ev.spawned = {g.nid}]
            ELSE [g0 EXCEPT !.ev.esample = sample]

(* main.py 365-370: create new enemy.  sample is read only when the *)
(* countdown is zero, xsample only when an enemy is created          *)
EnemySpawn(g, sample, xsample) ==
    LET g0 == [g EXCEPT !.ev.reload0 = g.enemyreload]
    IN IF g.enemyreload # 0
       THEN [g0 EXCEPT !.enemyreload = @ - 1]
       ELSE IF Scaled(sample, ENEMY_ODDS) = 0
            THEN [AddEnemy(g0, EnemyRect(xsample))
                     EXCEPT !.enemyreload = ENEMY_RELOAD,
                            !.ev.esample = sample,
                            !.ev.spawned = {g.nid}]
            ELSE [g0 EXCEPT !.ev.esample = sample]

(* main.py 372-374: shoot enemy bullets.  lastenemy is a GroupSingle; it is *)
(* truthy when it holds a sprite, and sample is read only then             *)
BulletSpawn(g, sample) ==
    LET g0 == [g EXCEPT !.ev.last0 = g.lastenemy, !.ev.foes0 = g.enemies]
    IN IF g.lastenemy = {}
       THEN g0
       ELSE LET e == CHOOSE id \in g.lastenemy : TRUE
            IN IF Scaled(sample, BULLET_ODDS) = 0
               THEN [AddEnemyBullet(g0, EnemyBulletRect(g.spr[e]))
                        EXCEPT !.ev.bsample = sample,
                               !.ev.bullets = {g.nid},
                               !.ev.bulletFrom = {e}]
               ELSE [g0 EXCEPT !.ev.bsample = sample]

(* player.alive(): the sprite is in some group *)
Alive(g) == PlayerId \in g.all

(* pg.sprite.spritecollide(sprite, group, dokill = 1): the sprites of the *)
(* group that overlap the sprite, in group order                         *)
Colliding(g, id, group) ==
    {x \in group : colliderect(g.spr[id], g.spr[x])}

RECURSIVE KillEach(_, _)
KillEach(g, ids) ==
    IF ids = <<>> THEN g ELSE KillEach(kill(g, Head(ids)), Tail(ids))

(* main.py 376-383: the body of the loop over the enemies the player hit *)
RECURSIVE PlayerHitBody(_, _)
PlayerHitBody(g, ids) ==
    IF ids = <<>> THEN g
    ELSE LET g1 == AddExplosion(g, ExplosionRect(g.spr[Head(ids)]))
             g2 == AddExplosion(g1, ExplosionRect(g1.spr[PlayerId]))
             g3 == [g2 EXCEPT !.SCORE = @ + 1,
                              !.ev.made1 = @ \cup {g.nid, g1.nid}]
         IN PlayerHitBody(kill(g3, PlayerId), Tail(ids))

(* check 1 with dokill = 0 *)
CollidePlayerEnemiesNoKill(g) ==
    LET hit == Colliding(g, PlayerId, g.enemies)
    IN PlayerHitBody([g EXCEPT !.ev.hit1 = hit], SortedIds(hit))

CollidePlayerEnemies(g) ==
    LET hit == Colliding(g, PlayerId, g.enemies)
        g1 == KillEach(g, SortedIds(hit))
    IN PlayerHitBody([g1 EXCEPT !.ev.hit1 = hit], SortedIds(hit))

(* groupcollide with dokillb = 0: the shots stay *)
RECURSIVE GroupCollideKeepShots(_, _)
GroupCollideKeepShots(g, ids) ==
    IF ids = <<>> THEN g
    ELSE LET e == Head(ids)
             c == Colliding(g, e, g.shots)
         IN IF c = {} THEN GroupCollideKeepShots(g, Tail(ids))
            ELSE GroupCollideKeepShots(
                   kill([g EXCEPT !.ev.hit2 = @ \cup {e}], e), Tail(ids))

(* pg.sprite.groupcollide(enemies, shots, 1, 1): the enemies are visited in *)
(* group order; the shots an enemy overlaps are killed at once, then the   *)
(* enemy                                                                   *)
RECURSIVE GroupCollide(_, _)
GroupCollide(g, ids) ==
    IF ids = <<>> THEN g
    ELSE LET e == Head(ids)
             c == Colliding(g, e, g.shots)
         IN IF c = {} THEN GroupCollide(g, Tail(ids))
            ELSE GroupCollide(
                   kill([KillEach(g, SortedIds(c))
                            EXCEPT !.ev.hit2 = @ \cup {e},
                                   !.ev.shotsHit = @ \cup c], e),
                   Tail(ids))

(* main.py 385-390: the body of the loop over the enemies a shot hit *)
RECURSIVE ShotHitBody(_, _)
ShotHitBody(g, ids) ==
    IF ids = <<>> THEN g
    ELSE LET g1 == AddExplosion(g, ExplosionRect(g.spr[Head(ids)]))
         IN ShotHitBody([g1 EXCEPT !.SCORE = @ + 1,
                                   !.ev.made2 = @ \cup {g.nid}], Tail(ids))

CollideShotsEnemies(g) ==
    LET g0 == [g EXCEPT !.ev.foes2 = g.enemies, !.ev.shots2 = g.shots]
        g1 == GroupCollide(g0, SortedIds(g.enemies))
    IN ShotHitBody(g1, SortedIds(g1.ev.hit2))

(* the bullet loop with the score line of the enemy loop copied into it *)
RECURSIVE BulletHitBodyScoring(_, _)
BulletHitBodyScoring(g, ids) ==
    IF ids = <<>> THEN g
    ELSE LET g1 == AddExplosion(g, ExplosionRect(g.spr[PlayerId]))
         IN BulletHitBodyScoring(
                kill([g1 EXCEPT !.SCORE = @ + 1,
                                !.ev.made3 = @ \cup {g.nid}], PlayerId),
                Tail(ids))

(* main.py 392-397: the body of the loop over the bullets that hit *)
RECURSIVE BulletHitBody(_, _)
BulletHitBody(g, ids) ==
    IF ids = <<>> THEN g
    ELSE LET g1 == AddExplosion(g, ExplosionRect(g.spr[PlayerId]))
         IN BulletHitBody(kill([g1 EXCEPT !.ev.made3 = @ \cup {g.nid}], PlayerId),
                          Tail(ids))

(* check 3 skipped once the player is dead *)
CollidePlayerBulletsIfAlive(g) ==
    LET g0 == [g EXCEPT !.ev.bullets3 = g.enemy_bullets]
        hit == Colliding(g, PlayerId, g.enemy_bullets)
        g1 == KillEach(g0, SortedIds(hit))
    IN IF Alive(g)
       THEN BulletHitBody([g1 EXCEPT !.ev.hit3 = hit], SortedIds(hit))
       ELSE g0

CollidePlayerBullets(g) ==
    LET g0 == [g EXCEPT !.ev.bullets3 = g.enemy_bullets]
        hit == Colliding(g, PlayerId, g.enemy_bullets)
        g1 == KillEach(g0, SortedIds(hit))
    IN BulletHitBody([g1 EXCEPT !.ev.hit3 = hit], SortedIds(hit))

(***************************************************************************)
(* main(): construction (main.py 296-321)                                  *)
(***************************************************************************)
Empty(images) ==
    [images |-> images,
     player |-> [facing |-> -1, reloading |-> 0, origtop |-> PlayerRect(images).top,
                 frame |-> 0],
     spr |-> [id \in {PlayerId} |-> PlayerRect(images)],
     all |-> {PlayerId}, enemies |-> {}, shots |-> {}, enemy_bullets |-> {},
     lastenemy |-> {}, newest |-> PlayerId, SCORE |-> 0, lastscore |-> 0,
     enemyreload |-> ENEMY_RELOAD,
     drawn |-> [id \in {PlayerId} |-> InitRect], lost |-> {}, dirty |-> {},
     nid |-> PlayerId + 1, ev |-> NoEvents]

(* Score.__init__: the text of SCORE = 0 at (10, 450) *)
ScoreRect ==
    [kind |-> "Score", left |-> ScoreLeft, top |-> ScoreTop, w |-> ScoreW,
     h |-> ScoreH, life |-> 0, image |-> 0]

(* Enemy() and, the font module being there, all.add(Score()) *)
Construct(images, xsample) ==
    AddScore(AddEnemy(Empty(images), EnemyRect(xsample)), ScoreRect)

Init ==
    /\ phase = "Running"
    /\ tick = 0
    /\ budget \in Budgets
    /\ \E x \in StartSamples :
         game = Construct(IF budget.tall THEN TallImages ELSE Images, x)

(***************************************************************************)
(* main.py 399-401: all.draw(screen) of a RenderUpdates group.  The list   *)
(* it returns starts with lostsprites; then every sprite of the group is   *)
(* blitted and gives: the area painted when the group has drawn nothing    *)
(* for it yet, the union of the area painted and the area it painted last  *)
(* time when the two overlap, and both areas otherwise.  The field dirty   *)
(* keeps the rectangles of the list that are not empty, as a set.          *)
(* all.clear(screen, background) (main.py 350) paints the background over  *)
(* the same rectangles and changes nothing the program reads.              *)
(***************************************************************************)
DrawOne(rec, newrect) ==
    IF ~Truthy(rec) THEN {newrect}
    ELSE IF colliderect(newrect, rec) THEN {RectUnion(newrect, rec)}
    ELSE {newrect, rec}

(* a draw that leaves out the sprites that are where they were drawn last *)
DrawSkipUnmoved(g) ==
    LET new == [id \in g.all |-> Blit(g.spr[id])]
        moved == {id \in g.all : new[id] # g.drawn[id]}
        rects == g.lost \cup UNION {DrawOne(g.drawn[id], new[id]) : id \in moved}
    IN [g EXCEPT !.dirty = {d \in rects : Truthy(d)},
                 !.drawn = new,
                 !.lost = {}]

Draw(g) ==
    LET new == [id \in g.all |-> Blit(g.spr[id])]
        rects == g.lost \cup UNION {DrawOne(g.drawn[id], new[id]) : id \in g.all}
    IN [g EXCEPT !.dirty = {d \in rects : Truthy(d)},
                 !.drawn = new,
                 !.lost = {}]

(* between the state g before an iteration and the state h after it no    *)
(* sprite was created or destroyed, moved or changed its image            *)
Still(g, h) ==
    /\ h.all = g.all
    /\ h.nid = h.ev.nid0
    /\ \A id \in g.all : h.spr[id] = g.spr[id]

(* the loop body with the two spawn steps ahead of all.update() *)
IterationSpawnFirst(g, t, left, right, space, es, xs, bs) ==
    LET g0 == [g EXCEPT !.ev = [NoEvents EXCEPT !.score0 = g.SCORE,
                                                !.nid0 = t * IdStride],
                        !.nid = t * IdStride]
        g1 == EnemySpawn(g0, es, xs)
        g2 == BulletSpawn(g1, bs)
        g3 == UpdateAll(g2)
        g4 == PlayerInput(g3, right - left, space)
        g5 == CollidePlayerEnemies(g4)
        g6 == CollideShotsEnemies(g5)
        g7 == CollidePlayerBullets(g6)
        g8 == Draw(g7)
    IN Collect([g8 EXCEPT !.ev.still = Still(g, g8)])

(* the loop body left as soon as check 1 has destroyed the player *)
IterationBreakOnDeath(g, t, left, right, space, es, xs, bs) ==
    LET g0 == [g EXCEPT !.ev = [NoEvents EXCEPT !.score0 = g.SCORE,
                                                !.nid0 = t * IdStride],
                        !.nid = t * IdStride]
        g1 == UpdateAll(g0)
        g2 == PlayerInput(g1, right - left, space)
        g3 == EnemySpawn(g2, es, xs)
        g4 == BulletSpawn(g3, bs)
        g5 == CollidePlayerEnemies(g4)
        g6 == CollideShotsEnemies(g5)
        g7 == CollidePlayerBullets(g6)
        g8 == Draw(g7)
    IN IF Alive(g5)
       THEN Collect([g8 EXCEPT !.ev.still = Still(g, g8)])
       ELSE Collect(g5)

(* the loop body with check 2 ahead of check 1 *)
IterationShotsFirst(g, t, left, right, space, es, xs, bs) ==
    LET g0 == [g EXCEPT !.ev = [NoEvents EXCEPT !.score0 = g.SCORE,
                                                !.nid0 = t * IdStride],
                        !.nid = t * IdStride]
        g1 == UpdateAll(g0)
        g2 == PlayerInput(g1, right - left, space)
        g3 == EnemySpawn(g2, es, xs)
        g4 == BulletSpawn(g3, bs)
        g5 == CollideShotsEnemies(g4)
        g6 == CollidePlayerEnemies(g5)
        g7 == CollidePlayerBullets(g6)
        g8 == Draw(g7)
    IN Collect([g8 EXCEPT !.ev.still = Still(g, g8)])

(***************************************************************************)
(* main(): one iteration of the loop (main.py 347-404) when the event      *)
(* queue holds no QUIT and no ESCAPE.  keys are K_LEFT, K_RIGHT, K_SPACE   *)
(* as get_pressed() gives them; es, xs, bs are the random samples.         *)
(***************************************************************************)
Iteration(g, t, left, right, space, es, xs, bs) ==
    LET g0 == [g EXCEPT !.ev = [NoEvents EXCEPT !.score0 = g.SCORE,
                                                !.nid0 = t * IdStride],
                        !.nid = t * IdStride]
        g1 == UpdateAll(g0)
        g2 == PlayerInput(g1, right - left, space)
        g3 == EnemySpawn(g2, es, xs)
        g4 == BulletSpawn(g3, bs)
        g5 == CollidePlayerEnemies(g4)
        g6 == CollideShotsEnemies(g5)
        g7 == CollidePlayerBullets(g6)
        g8 == Draw(g7)
    IN Collect([g8 EXCEPT !.ev.still = Still(g, g8)])

Tick ==
    /\ phase = "Running"
    /\ Alive(game)
    /\ tick < budget.ticks
    /\ \E left \in (IF budget.moves THEN {0, 1} ELSE {0}),
          right \in (IF budget.moves THEN {0, 1} ELSE {0}),
          space \in (IF budget.fire > 0 THEN {0, 1} ELSE {0}),
          es \in (IF game.enemyreload = 0 THEN EnemySamples ELSE {0}),
          bs \in BulletSamples :
       \E xs \in (IF game.enemyreload = 0 /\ Scaled(es, ENEMY_ODDS) = 0
                  THEN SpawnSamples ELSE {0}) :
          /\ game' = Iteration(game, tick + 1, left, right, space, es, xs, bs)
          /\ Cardinality(game'.ev.spawned) <= budget.spawn
          /\ Cardinality(game'.ev.bullets) <= budget.bullet
          /\ budget' = [budget EXCEPT
                          !.fire = @ - space,
                          !.spawn = @ - Cardinality(game'.ev.spawned),
                          !.bullet = @ - Cardinality(game'.ev.bullets)]
    /\ tick' = tick + 1
    /\ phase' = phase

(* main.py 327-331: a QUIT or ESCAPE event returns from main() at once *)
Quit ==
    /\ phase = "Running"
    /\ Alive(game)
    /\ phase' = "Terminated"
    /\ UNCHANGED <<tick, game, budget>>

(* leaving the loop straight into the return *)
LoopExitDirect ==
    /\ phase = "Running"
    /\ ~Alive(game)
    /\ phase' = "Terminated"
    /\ UNCHANGED <<tick, game, budget>>

(* main.py 324: the loop condition fails; main.py 406-408 start *)
LoopExit ==
    /\ phase = "Running"
    /\ ~Alive(game)
    /\ phase' = "Ending"
    /\ UNCHANGED <<tick, game, budget>>

(* main.py 406-408: fadeout and wait are over, main() returns *)
Finish ==
    /\ phase = "Ending"
    /\ phase' = "Terminated"
    /\ UNCHANGED <<tick, game, budget>>

Next == Tick \/ Quit \/ LoopExit \/ Finish

Spec == Init /\ [][Next]_vars

(***************************************************************************)
(* Properties                                                              *)
(***************************************************************************)
IsTick == tick' = tick + 1

(* C1: in every iteration SCORE grows by the number of enemies that check 1 *)
(* (player against enemies) and check 2 (shots against enemies) destroyed;  *)
(* the enemies that leave the enemies group in the iteration are those two  *)
(* sets and the ones that left the bottom, which add nothing, as do the     *)
(* bullets that hit the player; SCORE never decreases.                      *)
C1_ScoreCountsKills ==
    [][/\ game'.SCORE >= game.SCORE
       /\ IsTick =>
            /\ game'.SCORE = game.SCORE + Cardinality(game'.ev.hit1)
                                        + Cardinality(game'.ev.hit2)
            /\ (game.enemies \cup game'.ev.spawned) \ game'.enemies
                 = game'.ev.hit1 \cup game'.ev.hit2 \cup game'.ev.left
            /\ game'.ev.hit1 \cap game'.ev.hit2 = {}
            /\ game'.ev.left \cap (game'.ev.hit1 \cup game'.ev.hit2) = {}]_vars

C1_Witness == game.ev.hit2 # {} /\ game.SCORE = game.ev.score0 + 1

C1_ReachPlayerHit == game.ev.hit1 # {} /\ game.SCORE = game.ev.score0 + 1
C1_ReachBottom == game.ev.left # {} /\ game.SCORE = game.ev.score0
C1_ReachBulletHit == game.ev.hit3 # {} /\ game.ev.hit1 = {} /\ game.SCORE = 0

(* C2: the player's rectangle lies inside the play-field in every state, *)
(* the bounce offset included.                                           *)
C2_PlayerInside ==
    LET r == game.spr[PlayerId]
    IN /\ 0 <= r.left /\ Right(r) <= SCREEN_W
       /\ 0 <= r.top /\ Bottom(r) <= SCREEN_H

(* the player pushed against the right edge, with the bounce offset on *)
C2_Witness ==
    /\ Right(game.spr[PlayerId]) = SCREEN_W
    /\ game.spr[PlayerId].top = game.player.origtop - 1
    /\ game.player.facing = 1

C2_ReachLeftEdge == game.spr[PlayerId].left = 0 /\ tick > 3

(* C3: at most MAX_SHOTS shots are alive; an iteration creates at most one *)
(* shot, and only with the reload lock clear, fire held and fewer than     *)
(* MAX_SHOTS shots alive at the firing step.                               *)
C3_ShotCap ==
    /\ Cardinality(game.shots) <= MAX_SHOTS
    /\ Cardinality(game.ev.fired) <= 1
    /\ game.ev.fired # {} =>
         /\ game.ev.reloading0 = 0
         /\ game.ev.firing = 1
         /\ game.ev.shots0 < MAX_SHOTS

(* fire pressed afresh with MAX_SHOTS shots alive: no shot is created *)
C3_Witness ==
    /\ game.ev.reloading0 = 0
    /\ game.ev.firing = 1
    /\ game.ev.shots0 = MAX_SHOTS
    /\ game.ev.fired = {}

(* C4: firing is edge-triggered.  An iteration creates a shot exactly when *)
(* fire is held in it, was not held in the iteration before (or there was  *)
(* none), and fewer than MAX_SHOTS shots are alive at the firing step.     *)
C4_EdgeTriggered ==
    [][IsTick =>
         (game'.ev.fired # {} <=>
            /\ game'.ev.firing = 1
            /\ (tick = 0 \/ game.ev.firing = 0)
            /\ game'.ev.shots0 < MAX_SHOTS)]_vars

(* fire still held, room under the cap, and no shot *)
C4_Witness ==
    /\ game.ev.firing = 1
    /\ game.ev.reloading0 = 1
    /\ game.ev.shots0 < MAX_SHOTS
    /\ game.ev.fired = {}
    /\ game.shots # {}

(* C5 (as amended): whenever check 1 finds the player overlapping k >= 1   *)
(* live enemies, those k enemies and the player are destroyed, SCORE grows *)
(* by k, and 2k explosions are created: one at each enemy and, for each    *)
(* enemy, one at the player.  No live enemy overlaps the player afterwards.*)
C5_PlayerHit ==
    LET ev == game.ev
        p == game.spr[PlayerId]
        k == Cardinality(ev.hit1)
    IN /\ \A e \in game.enemies : ~colliderect(p, game.spr[e])
       /\ ev.hit1 # {} =>
            /\ ~Alive(game)
            /\ ev.hit1 \cap (game.all \cup game.enemies \cup game.lastenemy) = {}
            /\ \A e \in ev.hit1 : colliderect(p, game.spr[e])
            /\ game.SCORE = ev.score0 + k + Cardinality(ev.hit2)
            /\ Cardinality(ev.made1) = 2 * k
            /\ ev.made1 \subseteq game.all
            /\ \A e \in ev.hit1 :
                 \E x \in ev.made1 : game.spr[x] = ExplosionRect(game.spr[e])
            /\ Cardinality({x \in ev.made1 : game.spr[x] = ExplosionRect(p)}) >= k

(* the player runs into two enemies in one iteration *)
C5_Witness == Cardinality(game.ev.hit1) = 2 /\ Cardinality(game.ev.made1) = 4

C5_ReachOne == Cardinality(game.ev.hit1) = 1 /\ Cardinality(game.ev.made1) = 2

(* C5 as stated: k enemies hit give k + 1 explosions *)
C5_Original ==
    game.ev.hit1 # {} =>
        /\ ~Alive(game)
        /\ game.SCORE = game.ev.score0 + Cardinality(game.ev.hit1)
                                       + Cardinality(game.ev.hit2)
        /\ Cardinality(game.ev.made1) = Cardinality(game.ev.hit1) + 1

(* C6 (as amended): lastenemy holds the most recently created Enemy while  *)
(* that one is alive and nothing otherwise.  An iteration draws a bullet   *)
(* sample exactly when lastenemy is not empty at the bullet step, and      *)
(* spawns one EnemyBullet, from that enemy, iff int(sample * BULLET_ODDS)  *)
(* is 0.  Once the newest Enemy is destroyed no sample is drawn and no     *)
(* bullet is spawned, older enemies alive or not.                          *)
C6_BulletFromLast ==
    LET ev == game.ev
    IN /\ game.lastenemy = {game.newest} \cap game.enemies
       /\ ev.last0 = {game.newest} \cap ev.foes0
       /\ \A e \in ev.last0 : \A f \in ev.foes0 : f <= e
       /\ ev.bsample # -1 <=> ev.last0 # {}
       /\ ev.bullets # {} <=> (ev.last0 # {} /\ Scaled(ev.bsample, BULLET_ODDS) = 0)
       /\ ev.bullets # {} =>
            /\ Cardinality(ev.bullets) = 1
            /\ ev.bulletFrom = ev.last0
            /\ \A b \in ev.bullets \cap game.all : game.spr[b].kind = "EnemyBullet"

(* the newest enemy is gone, an older one is alive, and no sample is drawn *)
C6_Witness ==
    /\ tick > 0
    /\ game.ev.foes0 # {}
    /\ game.newest \notin game.ev.foes0
    /\ game.ev.bsample = -1
    /\ game.ev.bullets = {}

C6_ReachBullet == game.ev.bullets # {} /\ game.ev.bulletFrom = {game.newest}

(* C6 as stated: a sample is drawn in every iteration with an enemy alive *)
(* at the bullet step                                                     *)
C6_Original == (tick > 0 /\ game.ev.foes0 # {}) => game.ev.bsample # -1

(* C7: the countdown starts at ENEMY_RELOAD; an iteration that finds it    *)
(* nonzero lowers it by 1, draws nothing and spawns nothing; an iteration  *)
(* that finds it zero draws one sample, spawns an Enemy iff                *)
(* int(sample * ENEMY_ODDS) is 0 and then resets it to ENEMY_RELOAD.  Two  *)
(* spawned enemies are at least ENEMY_RELOAD + 1 iterations apart and the  *)
(* first comes no earlier than iteration ENEMY_RELOAD + 1.                 *)
C7_SpawnCountdown ==
    /\ [](game.enemyreload \in 0..ENEMY_RELOAD /\ (tick = 0 => game.enemyreload = ENEMY_RELOAD))
    /\ [][IsTick =>
            LET ev == game'.ev
            IN /\ ev.reload0 = game.enemyreload
               /\ game.enemyreload # 0 =>
                    /\ game'.enemyreload = game.enemyreload - 1
                    /\ ev.esample = -1
                    /\ ev.spawned = {}
               /\ game.enemyreload = 0 =>
                    /\ ev.esample # -1
                    /\ ev.spawned # {} <=> Scaled(ev.esample, ENEMY_ODDS) = 0
                    /\ game'.enemyreload = IF ev.spawned # {} THEN ENEMY_RELOAD ELSE 0
               /\ ev.spawned # {} =>
                    /\ Cardinality(ev.spawned) = 1
                    /\ ev.spawned \subseteq game'.enemies \cup ev.hit1 \cup ev.hit2
                    /\ game'.newest \in ev.spawned
                    /\ tick' >= ENEMY_RELOAD + 1
                    /\ game.newest >= IdStride =>
                         tick' - (game.newest \div IdStride) >= ENEMY_RELOAD + 1]_vars

(* a second enemy spawned ENEMY_RELOAD + 1 iterations after the first *)
C7_Witness ==
    /\ game.ev.spawned # {}
    /\ tick = 2 * (ENEMY_RELOAD + 1)
    /\ game.ev.reload0 = 0

C7_ReachMiss == game.ev.esample # -1 /\ game.ev.spawned = {} /\ game.enemyreload = 0

C8_ReachBulletHit == game.ev.bullets # {} /\ game.ev.bullets \subseteq game.ev.hit3

C9_ExitPaths ==
    [][/\ phase' # phase =>
            \/ phase = "Running" /\ ~Alive(game) /\ phase' = "Ending"
            \/ phase = "Ending" /\ phase' = "Terminated"
            \/ phase = "Running" /\ Alive(game) /\ phase' = "Terminated"
       /\ phase' # phase => game' = game /\ tick' = tick
       /\ game' # game => phase = "Running" /\ Alive(game) /\ phase' = "Running"]_vars

(* terminated by a QUIT event after some iterations, the player alive *)
C9_Witness == phase = "Terminated" /\ Alive(game) /\ tick > 0

C9_ReachEnding == phase = "Terminated" /\ ~Alive(game)

(* C9 as stated: no step from Running to Terminated *)
C9_Original == [][~(phase = "Running" /\ phase' = "Terminated")]_vars

(* C10: enemies, shots, enemy_bullets and lastenemy are subsets of all and *)
(* lastenemy of enemies; a group only ever gains objects made in the       *)
(* running iteration, so a destroyed one never comes back; what an         *)
(* iteration moves, hits or removes was in its group when the iteration    *)
(* began or was made in it.                                                *)
GroupsOf(g) == g.all \cup g.enemies \cup g.shots \cup g.enemy_bullets \cup g.lastenemy

C10_Groups ==
    /\ [](/\ game.enemies \cup game.shots \cup game.enemy_bullets
               \cup game.lastenemy \subseteq game.all
          /\ game.lastenemy \subseteq game.enemies
          /\ game.all \subseteq DOMAIN game.spr
          /\ game.enemies \cap game.shots = {}
          /\ game.enemies \cap game.enemy_bullets = {}
          /\ game.shots \cap game.enemy_bullets = {})
    /\ [][LET fresh(id) == id >= IdStride * (tick + 1)
              ev == game'.ev
          IN /\ \A id \in game'.all \ game.all : fresh(id)
             /\ \A id \in game'.enemies \ game.enemies : fresh(id)
             /\ \A id \in game'.shots \ game.shots : fresh(id)
             /\ \A id \in game'.enemy_bullets \ game.enemy_bullets : fresh(id)
             /\ \A id \in game'.lastenemy \ game.lastenemy : fresh(id)
             /\ IsTick =>
                  /\ ev.hit1 \cup ev.hit2 \cup ev.left \subseteq game.enemies \cup ev.spawned
                  /\ ev.shotsHit \subseteq game.shots \cup ev.fired
                  /\ ev.hit3 \subseteq game.enemy_bullets \cup ev.bullets
                  /\ (ev.hit1 \cup ev.hit2 \cup ev.left \cup ev.shotsHit \cup ev.hit3)
                       \cap GroupsOf(game') = {}
                  /\ \A id \in (DOMAIN game.spr \cap DOMAIN game'.spr)
                                  \ (game.all \cup {PlayerId}) :
                       game'.spr[id] = game.spr[id]]_vars

(* a shot and the newest enemy destroyed, an older enemy still in its groups *)
C10_Witness ==
    /\ game.ev.hit2 # {} /\ game.ev.shotsHit # {}
    /\ (game.ev.hit2 \cup game.ev.shotsHit) \cap GroupsOf(game) = {}
    /\ game.enemies # {}
    /\ game.lastenemy = {}

Contains(r, s) ==
    /\ r.left <= s.left /\ r.top <= s.top
    /\ Right(r) >= Right(s) /\ Bottom(r) >= Bottom(s)

C13_DirtyRects ==
    [][IsTick =>
         LET d == game'.dirty
             new == [id \in game'.all |-> Blit(game'.spr[id])]
             old == game.drawn
         IN /\ game'.drawn = new
            /\ game'.lost = {}
            /\ \A id \in game'.all :
                  Truthy(new[id]) => \E r \in d : Contains(r, new[id])
            /\ \A id \in game.all :
                  Truthy(old[id]) => \E r \in d : Contains(r, old[id])
            /\ \A r \in d :
                  /\ Truthy(r)
                  /\ \/ \E id \in game.all : r = old[id]
                     \/ \E id \in game'.all : r = new[id]
                     \/ \E id \in game.all \cap game'.all :
                          r = RectUnion(new[id], old[id])
            /\ game'.ev.still =>
                  /\ d = {new[id] : id \in game'.all}
                  /\ new[PlayerId] \in d]_vars

(* only the Player and the score are on the screen, and nothing changed *)
C13_Witness ==
    /\ game.ev.still
    /\ game.all = {PlayerId, ScoreId}
    /\ Cardinality(game.dirty) = 2

(* C13 as stated: nothing changed, so the render step returns no rectangle *)
C13_Original == game.ev.still => game.dirty = {}

(* C14 (as amended): check 2 visits the live enemies in the order they     *)
(* were created; the live shots an enemy overlaps are destroyed at once    *)
(* and then the enemy.  So every live Shot that overlaps a live Enemy is   *)
(* destroyed, and an Enemy is destroyed exactly when it overlaps a Shot    *)
(* that overlaps no older live Enemy: a Shot on two enemies destroys the   *)
(* older one only.  Each destroyed Enemy gives one Explosion at its place  *)
(* and +1 SCORE, however many shots hit it.                                *)
C14_ShotsHitEnemies ==
    LET ev == game.ev
        Over(e, s) == colliderect(game.spr[e], game.spr[s])
    IN /\ ev.shotsHit = {s \in ev.shots2 : \E e \in ev.foes2 : Over(e, s)}
       /\ ev.hit2 = {e \in ev.foes2 :
                       \E s \in ev.shots2 :
                          /\ Over(e, s)
                          /\ \A o \in ev.foes2 : o < e => ~Over(o, s)}
       /\ (ev.hit2 \cup ev.shotsHit) \cap GroupsOf(game) = {}
       /\ ev.foes2 \ ev.hit2 \subseteq game.enemies
       /\ ev.shots2 \ ev.shotsHit \subseteq game.shots
       /\ Cardinality(ev.made2) = Cardinality(ev.hit2)
       /\ \A e \in ev.hit2 :
             \E x \in ev.made2 : game.spr[x] = ExplosionRect(game.spr[e])
       /\ game.SCORE = ev.score0 + Cardinality(ev.hit1) + Cardinality(ev.hit2)

(* one shot on two enemies: the older enemy is destroyed, the other stays *)
C14_Witness ==
    /\ \E s \in game.ev.shotsHit :
          Cardinality({e \in game.ev.foes2 :
                         colliderect(game.spr[e], game.spr[s])}) = 2
    /\ Cardinality(game.ev.hit2) = 1
    /\ game.SCORE = game.ev.score0 + 1
    /\ game.enemies # {}

C14_ReachTwoShots ==
    /\ Cardinality(game.ev.shotsHit) = 2
    /\ Cardinality(game.ev.hit2) = 1
    /\ game.SCORE = game.ev.score0 + 1

(* C14 as stated: every live Enemy a live Shot overlaps is destroyed and *)
(* gives +1                                                              *)
C14_Original ==
    LET ev == game.ev
        struck == {e \in ev.foes2 :
                     \E s \in ev.shots2 : colliderect(game.spr[e], game.spr[s])}
    IN /\ struck \subseteq ev.hit2
       /\ game.SCORE = ev.score0 + Cardinality(ev.hit1) + Cardinality(struck)

(* C15: the collision checks run in the order player against enemies,     *)
(* shots against enemies, player against bullets, each destroying at      *)
(* once.  An Enemy that overlaps the Player is destroyed by check 1 and   *)
(* is not among the enemies check 2 looks at, also when a Shot overlaps   *)
(* it; it adds 1 to SCORE and one Explosion at its place; a Shot stays    *)
(* alive unless it overlaps an Enemy that check 1 left alive.  The        *)
(* explosions of check 1 are created before those of check 2 and those    *)
(* before the ones of check 3.                                            *)
C15_CheckOrder ==
    LET ev == game.ev
        p == game.spr[PlayerId]
        Over(e, s) == colliderect(game.spr[e], game.spr[s])
    IN /\ ev.hit1 = {e \in ev.foes0 : colliderect(p, game.spr[e])}
       /\ ev.foes2 = ev.foes0 \ ev.hit1
       /\ ev.hit2 \subseteq ev.foes2
       /\ \A e \in ev.hit1 :
             Cardinality({x \in ev.made1 \cup ev.made2 \cup ev.made3 :
                            game.spr[x] = ExplosionRect(game.spr[e])}) = 1
       /\ game.SCORE = ev.score0 + Cardinality(ev.hit1) + Cardinality(ev.hit2)
       /\ \A s \in ev.shots2 :
             s \in game.shots <=> \A e \in ev.foes2 : ~Over(e, s)
       /\ \A x \in ev.made1 : \A y \in ev.made2 \cup ev.made3 : x < y
       /\ \A y \in ev.made2 : \A z \in ev.made3 : y < z

(* an Enemy overlaps the Player and a Shot: check 1 takes it, the Shot stays *)
C15_Witness ==
    /\ \E e \in game.ev.hit1 : \E s \in game.ev.shots2 :
          /\ colliderect(game.spr[e], game.spr[s])
          /\ s \in game.shots
    /\ game.ev.hit2 = {}
    /\ game.SCORE = game.ev.score0 + 1

C15_ReachOneTwo == game.ev.made1 # {} /\ game.ev.made2 # {}
C15_ReachTwoThree == game.ev.made2 # {} /\ game.ev.made3 # {}
C15_ReachOneThree == game.ev.made1 # {} /\ game.ev.made3 # {}

(* C16: check 3 runs in every iteration, also when check 1 has destroyed   *)
(* the Player in it: every live EnemyBullet that overlaps the Player's     *)
(* rectangle is destroyed, the Player is destroyed or stays so, one        *)
(* Explosion per such bullet is created at the Player's place, and SCORE   *)
(* does not change by it.  The other bullets stay.                         *)
C16_BulletsHitPlayer ==
    LET ev == game.ev
        p == game.spr[PlayerId]
    IN /\ ev.hit3 = {b \in ev.bullets3 : colliderect(p, game.spr[b])}
       /\ ev.hit3 \cap GroupsOf(game) = {}
       /\ ev.bullets3 \ ev.hit3 = game.enemy_bullets
       /\ ev.hit3 # {} => ~Alive(game)
       /\ Cardinality(ev.made3) = Cardinality(ev.hit3)
       /\ ev.made3 \subseteq game.all
       /\ \A x \in ev.made3 : game.spr[x] = ExplosionRect(p)
       /\ game.SCORE = ev.score0 + Cardinality(ev.hit1) + Cardinality(ev.hit2)

(* an Enemy and an EnemyBullet reach the Player in the same iteration *)
C16_Witness ==
    /\ game.ev.hit1 # {}
    /\ game.ev.hit3 # {}
    /\ Cardinality(game.ev.made3) = 1
    /\ game.SCORE = game.ev.score0 + Cardinality(game.ev.hit1)

C16_ReachAlone == game.ev.hit1 = {} /\ game.ev.hit3 # {} /\ game.SCORE = game.ev.score0

(* C17: the iteration that destroys the Player runs to its end: checks 2   *)
(* and 3 have run (no live Shot overlaps a live Enemy and no live bullet   *)
(* overlaps the Player afterwards) and so has the render step (every       *)
(* sprite of the group all has been drawn, the explosions of the           *)
(* iteration among them).  No iteration runs after it: once the Player is  *)
(* destroyed nothing of the game changes any more.  While the Player is    *)
(* alive only a QUIT or ESCAPE event takes the loop out of Running.        *)
C17_LastIteration ==
    /\ [](~Alive(game) =>
            /\ \A e \in game.enemies : \A s \in game.shots :
                  ~colliderect(game.spr[e], game.spr[s])
            /\ \A b \in game.enemy_bullets :
                  ~colliderect(game.spr[PlayerId], game.spr[b])
            /\ game.ev.made1 \cup game.ev.made2 \cup game.ev.made3 \subseteq game.all
            /\ game.ev.made1 \cup game.ev.made3 # {}
            /\ game.drawn = [id \in game.all |-> Blit(game.spr[id])]
            /\ game.lost = {})
    /\ [][/\ ~Alive(game) => (game' = game /\ tick' = tick)
          /\ game' # game => (phase = "Running" /\ phase' = "Running")
          /\ (phase = "Running" /\ Alive(game) /\ phase' # "Running") => Quit
          /\ (phase = "Running" /\ ~Alive(game)) => phase' # "Running"]_vars

(* the loop was left after an iteration in which check 1 destroyed the  *)
(* Player and check 2 still destroyed an Enemy                          *)
C17_Witness ==
    /\ phase = "Ending"
    /\ ~Alive(game)
    /\ game.ev.hit1 # {}
    /\ game.ev.hit2 # {}
    /\ game.ev.made2 \subseteq DOMAIN game.drawn

(* C18: an Explosion starts with life ExplosionLife; every update lowers   *)
(* it by 1; it is never negative; the update that brings it to 0 destroys  *)
(* the Explosion.  An Explosion created in iteration t is drawn in the     *)
(* iterations t .. t + ExplosionLife - 1 and destroyed in iteration        *)
(* t + ExplosionLife.                                                      *)
Explosions(g) == {x \in g.all : g.spr[x].kind = "Explosion"}

C18_ExplosionLife ==
    /\ [](/\ \A x \in Explosions(game) :
               /\ game.spr[x].life \in 1..ExplosionLife
               /\ game.spr[x].life = ExplosionLife - (tick - (x \div IdStride))
               /\ game.drawn[x] = Blit(game.spr[x])
          /\ \A x \in game.ev.made1 \cup game.ev.made2 \cup game.ev.made3 :
               game.spr[x].life = ExplosionLife /\ x \div IdStride = tick
          /\ \A x \in game.ev.faded :
               /\ game.spr[x].life = 0
               /\ tick = (x \div IdStride) + ExplosionLife
               /\ x \notin game.all)
    /\ [][IsTick =>
            /\ \A x \in Explosions(game) :
                 IF game.spr[x].life = 1
                 THEN x \in game'.ev.faded
                 ELSE /\ x \in Explosions(game')
                      /\ game'.spr[x].life = game.spr[x].life - 1
            /\ game'.ev.faded \subseteq Explosions(game)]_vars

(* an Explosion destroyed by its last update, the loop still running *)
C18_Witness ==
    /\ game.ev.faded # {}
    /\ \A x \in game.ev.faded : tick = (x \div IdStride) + ExplosionLife
    /\ Alive(game)

(* C19: after every Player.move the player's top is origtop minus          *)
(* (left \div PlayerBounce) % 2, taken on the left edge after the clamp;    *)
(* the offset is 0 or 1 and is a function of the horizontal position       *)
(* alone; origtop is the top the Player was constructed with.              *)
BounceOffset(left) == (left \div PlayerBounce) % 2

C19_PlayerBounce ==
    tick >= 1 =>
        LET r == game.spr[PlayerId]
        IN /\ r.top = game.player.origtop - BounceOffset(r.left)
           /\ BounceOffset(r.left) \in {0, 1}
           /\ game.player.origtop = PlayerRect(game.images).top
           /\ r.left = ClampAxis(game.ev.moved, r.w, SCREEN_W)

(* a move the clamp cut short, where the offset of the position before *)
(* the clamp differs from the offset of the position after it          *)
C19_Witness ==
    /\ tick >= 1
    /\ game.ev.moved # game.spr[PlayerId].left
    /\ BounceOffset(game.ev.moved) # BounceOffset(game.spr[PlayerId].left)
    /\ game.spr[PlayerId].top = game.player.origtop - 1

C19_ReachNoOffset ==
    /\ tick >= 1
    /\ game.ev.moved < 0
    /\ game.spr[PlayerId].top = game.player.origtop

====
